---- MODULE Spec2Model ----
(***************************************************************************)
(* A model of the three run-once scripts of semaphore-security-scan:       *)
(*   scripts/extract-images.py       (Image Extractor)                     *)
(*   scripts/generate-report.py      (Report Generator)                    *)
(*   scripts/download-report-api.py  (Report Fetcher)                      *)
(* One behaviour is one process invocation: Init chooses the script, its   *)
(* argv, the files it will read and the environment; the actions are the   *)
(* consecutive pieces of the script's code.  An uncaught Python exception  *)
(* ends the process with exit status 1 and a traceback on stderr.          *)
(***************************************************************************)
EXTENDS Integers, Sequences, FiniteSets, TLC

VARIABLES
  script,          \* which script this process runs
  argc,            \* len(sys.argv)
  pc,              \* position in the script
  exitCode,        \* process exit status, -1 while it runs
  crashAt,         \* the pc at which an uncaught exception was raised, "" if none
  stdout,          \* lines printed to standard output
  stderr,          \* lines printed to standard error
  chart,           \* extract-images: the chart directory on disk
  parent_values,   \* extract-images: main's parent_values
  registry,        \* extract-images: main's registry
  images,          \* extract-images: the list being built by the running function
  idx,             \* extract-images / generate-report: loop index
  app_images,      \* extract-images: main's app_images
  infra_images,    \* extract-images: main's infra_images
  results_dir,     \* generate-report: the scan results directory on disk
  scan_files,      \* generate-report: sorted(scan_files)
  image_results,   \* generate-report: image_results
  total_high,      \* generate-report: total_high
  total_critical,  \* generate-report: total_critical
  report,          \* generate-report: the value generate_report returns
  env,             \* download-report-api: environment and remote end
  requestCount,    \* download-report-api: HTTP requests issued
  outFile          \* download-report-api: what was written to the output file

vars == <<script, argc, pc, exitCode, crashAt, stdout, stderr, chart,
          parent_values, registry, images, idx, app_images, infra_images,
          results_dir, scan_files, image_results, total_high, total_critical,
          report, env, requestCount, outFile>>

(***************************************************************************)
(* Bounds of the model.                                                    *)
(***************************************************************************)
\* subchart directories under charts/
MaxCharts == 2
\* *.json files in the scan results directory
MaxFiles == 3

(***************************************************************************)
(* Python values.  A value is a record tagged by its type; a dict is a     *)
(* function from string keys.  Raised stands for an expression whose       *)
(* evaluation raised an exception.                                         *)
(***************************************************************************)
PyNone == [t |-> "none"]
PyStr(s) == [t |-> "str", s |-> s]
PyInt(n) == [t |-> "int", n |-> n]
PyDict(m) == [t |-> "dict", m |-> m]
PyList(l) == [t |-> "list", l |-> l]
Raised == [t |-> "raise"]
EmptyDict == PyDict(<<>>)

\* d.get(k, dflt): AttributeError unless d is a dict
Get(d, k, dflt) ==
  IF d.t = "dict" THEN (IF k \in DOMAIN d.m THEN d.m[k] ELSE dflt) ELSE Raised

\* bool(v)
Truthy(v) ==
  CASE v.t = "none" -> FALSE
    [] v.t = "str" -> v.s # ""
    [] v.t = "int" -> v.n # 0
    [] v.t = "dict" -> DOMAIN v.m # {}
    [] v.t = "list" -> Len(v.l) > 0

\* str(v), as an f-string formats a scalar
Format(v) ==
  CASE v.t = "str" -> v.s
    [] v.t = "int" -> ToString(v.n)
    [] v.t = "none" -> "None"

(***************************************************************************)
(* Python string comparison: by code point, then by length.                *)
(***************************************************************************)
Ascii35 == "#$%&'()*+,-./0123456789:;<=>?@ABCDEFGHIJKLMNOPQRSTUVWXYZ["
Ascii93 == "]^_"
Ascii97 == "abcdefghijklmnopqrstuvwxyz{|}~"
CharIn(c, tab) == \E i \in 1..Len(tab) : SubSeq(tab, i, i) = c
CharPos(c, tab) == CHOOSE i \in 1..Len(tab) : SubSeq(tab, i, i) = c
\* ord(c) for the printable ASCII characters the inputs use
Ord(c) ==
  IF CharIn(c, Ascii97) THEN 96 + CharPos(c, Ascii97)
  ELSE IF CharIn(c, Ascii35) THEN 34 + CharPos(c, Ascii35)
  ELSE IF CharIn(c, Ascii93) THEN 92 + CharPos(c, Ascii93)
  ELSE IF c = " " THEN 32 ELSE 33

RECURSIVE StrLess(_, _)
\* a < b on str
StrLess(a, b) ==
  IF b = "" THEN FALSE
  ELSE IF a = "" THEN TRUE
  ELSE IF Head(a) # Head(b) THEN Ord(Head(a)) < Ord(Head(b))
  ELSE StrLess(Tail(a), Tail(b))

\* sub in s on str
Contains(s, sub) == \E i \in 1..(Len(s) - Len(sub) + 1) : SubSeq(s, i, i + Len(sub) - 1) = sub

RECURSIVE InsertStr(_, _)
\* s, sorted, with x put after every element that is not greater than it
InsertStr(x, s) ==
  IF s = <<>> THEN <<x>>
  ELSE IF StrLess(x, Head(s)) THEN <<x>> \o s
  ELSE <<Head(s)>> \o InsertStr(x, Tail(s))

RECURSIVE SortedStrs(_)
\* sorted(l) for a list of str
SortedStrs(l) ==
  IF l = <<>> THEN <<>>
  ELSE InsertStr(l[Len(l)], SortedStrs(SubSeq(l, 1, Len(l) - 1)))

(***************************************************************************)
(* Process exit.                                                           *)
(***************************************************************************)
\* sys.exit(code), or falling off the end of the script (code 0)
Exit(code, errLines, outLines) ==
  /\ pc' = "done"
  /\ exitCode' = code
  /\ crashAt' = crashAt
  /\ stderr' = stderr \o errLines
  /\ stdout' = stdout \o outLines

\* an exception no handler catches: the interpreter prints the traceback and
\* exits with status 1
Crash(errLines) ==
  /\ pc' = "done"
  /\ exitCode' = 1
  /\ crashAt' = pc
  /\ stderr' = stderr \o errLines \o <<"Traceback (most recent call last):">>
  /\ stdout' = stdout

\* the script goes on at position p
Goto(p, errLines) ==
  /\ pc' = p
  /\ exitCode' = exitCode
  /\ crashAt' = crashAt
  /\ stderr' = stderr \o errLines
  /\ stdout' = stdout

(***************************************************************************)
(* scripts/extract-images.py                                               *)
(***************************************************************************)
\* A file on disk: kind "absent" (no such file), "bad" (open or
\* yaml.safe_load raises) or "doc" (safe_load returns doc).
AbsentFile == [kind |-> "absent", doc |-> PyNone]
BadFile == [kind |-> "bad", doc |-> PyNone]
DocFile(v) == [kind |-> "doc", doc |-> v]

\* load_yaml's return value; the file exists
load_yaml(file) == IF file.kind = "bad" THEN EmptyDict ELSE file.doc

\* what load_yaml prints to stderr (the exception's text is left out)
load_yaml_warning(path, file) ==
  IF file.kind = "bad" THEN <<"Warning: Failed to load " \o path>> ELSE <<>>

ChartPath == "chart"
ValuesPath == ChartPath \o "/values.yaml"
ChartsPath == ChartPath \o "/charts"
SubchartValuesPath(name) == ChartsPath \o "/" \o name \o "/values.yaml"
DefaultRegistry == "ghcr.io/semaphoreio"

RECURSIVE SortedDirs(_)
\* sorted(charts_path.iterdir()): the entries by name
SortedDirs(S) ==
  IF S = {} THEN <<>>
  ELSE LET m == CHOOSE x \in S : \A y \in S \ {x} : StrLess(x.name, y.name)
       IN <<m>> \o SortedDirs(S \ {m})

\* main, lines 141-142: parent_values and registry
MainRegistry(pv) ==
  Get(Get(Get(pv, "global", EmptyDict), "image", EmptyDict), "registry",
      PyStr(DefaultRegistry))

\* f"{registry}/{name}:{tag}"
FullImage(reg, name, tag) == Format(reg) \o "/" \o Format(name) \o ":" \o Format(tag)

\* One iteration of the loop over the subcharts, lines 40-63: the images it
\* appends, what it prints to stderr, and whether it raised.
SubchartStep(sc, pv, reg) ==
  LET skip == [raised |-> FALSE, images |-> <<>>, err |-> <<>>]
      warn == load_yaml_warning(SubchartValuesPath(sc.name), sc.values)
      subchart_values == load_yaml(sc.values)
      image_name == Get(subchart_values, "image", PyNone)
      image_tag == Get(Get(pv, sc.name, EmptyDict), "imageTag", PyNone)
  IN IF ~sc.is_dir THEN skip
     ELSE IF sc.values.kind = "absent" THEN skip
     ELSE IF image_name.t = "raise" THEN [raised |-> TRUE, images |-> <<>>, err |-> warn]
     ELSE IF ~Truthy(image_name) THEN [skip EXCEPT !.err = warn]
     ELSE IF image_tag.t = "raise" THEN [raised |-> TRUE, images |-> <<>>, err |-> warn]
     ELSE IF Truthy(image_tag)
          THEN [raised |-> FALSE, images |-> <<FullImage(reg, image_name, image_tag)>>,
                err |-> warn]
     ELSE [skip EXCEPT !.err = warn]

\* A sidecar of the global section, lines 69-71 and 74-76
SidecarImage(global_vals, key, reg) ==
  LET sidecar == Get(global_vals, key, EmptyDict)
      image == Get(sidecar, "image", PyNone)
      imageTag == Get(sidecar, "imageTag", PyNone)
  IN IF image.t = "raise" THEN [raised |-> TRUE, images |-> <<>>]
     ELSE IF Truthy(image) /\ Truthy(imageTag)
          THEN [raised |-> FALSE, images |-> <<FullImage(reg, image, imageTag)>>]
     ELSE [raised |-> FALSE, images |-> <<>>]

\* extract_app_images_from_charts, lines 65-78: the sidecars and the sort
AppImagesTail(imgs, pv, reg) ==
  LET global_vals == Get(pv, "global", EmptyDict)
      enc == SidecarImage(global_vals, "sidecarEncryptor", reg)
      statsd == SidecarImage(global_vals, "statsd", reg)
  IN IF enc.raised \/ statsd.raised THEN [raised |-> TRUE, images |-> <<>>]
     ELSE [raised |-> FALSE, images |-> SortedStrs(imgs \o enc.images \o statsd.images)]

\* An infrastructure image with a fixed name and a configured version,
\* lines 87-89, 92-94, 97-99, 102-104
VersionedImage(global_vals, key, name) ==
  LET config == Get(Get(global_vals, key, EmptyDict), "local", EmptyDict)
      version == Get(config, "version", PyNone)
  IN IF version.t = "raise" THEN [raised |-> TRUE, images |-> <<>>]
     ELSE IF Truthy(version)
          THEN [raised |-> FALSE, images |-> <<name \o ":" \o Format(version)>>]
     ELSE [raised |-> FALSE, images |-> <<>>]

\* The init-container images, lines 107-108
InitContainerImages == <<"postgres:13", "curlimages/curl:latest">>
\* The documented default agent image, line 114
FallbackAgentImage == "docker.io/erlang:26"

\* The default agent image, lines 111-118
AgentImage(global_vals) ==
  LET agent_config == Get(global_vals, "agent", EmptyDict)
      default_image == Get(agent_config, "defaultImage", PyNone)
  IN IF agent_config.t = "raise" THEN [raised |-> TRUE, images |-> <<>>]
     ELSE IF ~Truthy(agent_config) THEN [raised |-> FALSE, images |-> <<FallbackAgentImage>>]
     ELSE IF default_image.t = "raise" THEN [raised |-> TRUE, images |-> <<>>]
     ELSE IF Truthy(default_image)
          THEN [raised |-> FALSE, images |-> <<Format(default_image)>>]
     ELSE [raised |-> FALSE, images |-> <<>>]

\* extract_infra_images
extract_infra_images(pv) ==
  LET global_vals == Get(pv, "global", EmptyDict)
      db == VersionedImage(global_vals, "database", "postgres")
      rmq == VersionedImage(global_vals, "rabbitmq", "rabbitmq")
      redis == VersionedImage(global_vals, "redis", "redis")
      minio == VersionedImage(global_vals, "artifacts", "minio/minio")
      agent == AgentImage(global_vals)
  IN IF db.raised \/ rmq.raised \/ redis.raised \/ minio.raised \/ agent.raised
     THEN [raised |-> TRUE, images |-> <<>>]
     ELSE [raised |-> FALSE,
           images |-> db.images \o rmq.images \o redis.images \o minio.images
                      \o InitContainerImages \o agent.images]

(***************************************************************************)
(* extract-images: the inputs of a run.                                    *)
(***************************************************************************)
\* A key of a mapping that is written or left out
NoKey == [has |-> FALSE, v |-> PyNone]
Key(v) == [has |-> TRUE, v |-> v]
Field(k, o) == IF o.has THEN (k :> o.v) ELSE <<>>

Local(version) == PyDict("local" :> PyDict("version" :> version))

\* The global sections the runs are given
GlobalChoices ==
  { NoKey,
    Key(PyNone),
    Key(EmptyDict),
    Key(PyDict("image" :> PyDict("registry" :> PyStr("reg.local"))
               @@ "database" :> Local(PyInt(13))
               @@ "rabbitmq" :> Local(PyStr("3.13"))
               @@ "redis" :> Local(PyInt(7))
               @@ "artifacts" :> Local(PyStr("RELEASE.2024"))
               @@ "agent" :> PyDict("defaultImage" :> PyStr("custom/agent:1"))
               @@ "sidecarEncryptor" :> PyDict("image" :> PyStr("encryptor")
                                               @@ "imageTag" :> PyStr("1.0"))
               @@ "statsd" :> PyDict("image" :> PyStr("statsd")
                                     @@ "imageTag" :> PyInt(2)))),
    Key(PyDict("database" :> PyNone)),
    Key(PyDict("database" :> PyDict("local" :> PyNone))),
    Key(PyDict("database" :> Local(PyInt(14)) @@ "agent" :> EmptyDict)),
    Key(PyDict("agent" :> PyDict("image" :> PyStr("custom/agent")))),
    Key(PyDict("agent" :> PyNone)),
    Key(PyDict("redis" :> PyStr("7"))),
    Key(PyDict("sidecarEncryptor" :> PyDict("image" :> PyStr("img-a")
                                            @@ "imageTag" :> PyStr("1.0")))),
    Key(PyDict("sidecarEncryptor" :> PyNone)),
    Key(PyDict("statsd" :> PyDict("image" :> PyStr("statsd")))) }

\* The names of the entries of charts/, in the order the directory lists them
ChartNames == <<"b", "a", "c", "d">>

\* The image name a well-formed subchart declares
DeclaredImage(name) == "img-" \o name

Subchart(name, is_dir, values) == [name |-> name, is_dir |-> is_dir, values |-> values]
WellFormedValues(name) == DocFile(PyDict("image" :> PyStr(DeclaredImage(name))))
TagEntry(tag) == Key(PyDict("imageTag" :> tag))

\* An entry of charts/ with the parent's entry of the same name
ChartCases(name) ==
  { [sc |-> Subchart(name, TRUE, WellFormedValues(name)), entry |-> TagEntry(PyStr("1.0"))],
    [sc |-> Subchart(name, TRUE, WellFormedValues(name)), entry |-> TagEntry(PyInt(2))],
    [sc |-> Subchart(name, TRUE, AbsentFile), entry |-> TagEntry(PyStr("1.0"))],
    [sc |-> Subchart(name, TRUE, BadFile), entry |-> TagEntry(PyStr("1.0"))],
    [sc |-> Subchart(name, TRUE, DocFile(PyNone)), entry |-> TagEntry(PyStr("1.0"))],
    [sc |-> Subchart(name, TRUE, DocFile(PyList(<<>>))), entry |-> TagEntry(PyStr("1.0"))],
    [sc |-> Subchart(name, TRUE, DocFile(EmptyDict)), entry |-> TagEntry(PyStr("1.0"))],
    [sc |-> Subchart(name, TRUE, WellFormedValues(name)), entry |-> NoKey],
    [sc |-> Subchart(name, TRUE, WellFormedValues(name)), entry |-> Key(PyNone)],
    [sc |-> Subchart(name, TRUE, WellFormedValues(name)), entry |-> Key(EmptyDict)],
    [sc |-> Subchart(name, FALSE, AbsentFile), entry |-> NoKey] }

RECURSIVE MergeEntries(_, _)
\* The parent's entries for the subcharts 1..n of the choice c
MergeEntries(c, n) ==
  IF n = 0 THEN <<>>
  ELSE Field(ChartNames[n], c[n].entry) @@ MergeEntries(c, n - 1)

\* The chart directory: the parent values.yaml and the entries of charts/
ChartDir(exists, values, chartsExists, subcharts) ==
  [exists |-> exists, values |-> values, chartsExists |-> chartsExists,
   subcharts |-> subcharts]

\* The chart directory with a parent mapping and n subcharts, the i-th the
\* case c[i] of the i-th name
ChartDirOf(g, c, n) ==
  ChartDir(TRUE,
           DocFile(PyDict(Field("global", g) @@ MergeEntries(c, n))),
           TRUE,
           {c[i].sc : i \in 1..n})

\* The choices of n cases, one for each of the first n names
CaseChoices(n) ==
  { c \in [1..n -> UNION {ChartCases(ChartNames[i]) : i \in 1..n}] :
      \A i \in 1..n : c[i].sc.name = ChartNames[i] }

WellFormedChart ==
  ChartDir(TRUE,
           DocFile(PyDict("a" :> PyDict("imageTag" :> PyStr("1.0"))
                          @@ "b" :> PyDict("imageTag" :> PyStr("2.0")))),
           TRUE,
           {Subchart("a", TRUE, WellFormedValues("a")),
            Subchart("b", TRUE, WellFormedValues("b"))})

\* The chart directories whose parent values.yaml is missing, unreadable,
\* empty or no mapping, the one with no charts/ and the one that is missing
OddChartDirs ==
  { [WellFormedChart EXCEPT !.exists = FALSE],
    [WellFormedChart EXCEPT !.values = AbsentFile],
    [WellFormedChart EXCEPT !.values = BadFile],
    [WellFormedChart EXCEPT !.values = DocFile(PyNone)],
    [WellFormedChart EXCEPT !.values = DocFile(PyList(<<>>))],
    [WellFormedChart EXCEPT !.chartsExists = FALSE] }

(***************************************************************************)
(* extract-images: the run.                                                *)
(***************************************************************************)
extractVars == <<chart, parent_values, registry, images, idx, app_images, infra_images>>
reportVars == <<results_dir, scan_files, image_results, total_high, total_critical, report>>
fetchVars == <<env, requestCount, outFile>>

\* main, lines 123-142: the arguments, the paths, the parent values.yaml
ExtractMain ==
  /\ script = "extract" /\ pc = "main"
  /\ LET pv == load_yaml(chart.values)
         warn == load_yaml_warning(ValuesPath, chart.values)
         reg == MainRegistry(pv)
     IN IF argc # 2
        THEN /\ Exit(1, <<"Usage: extract-images.py <path-to-helm-chart-directory>">>, <<>>)
             /\ UNCHANGED <<parent_values, registry>>
        ELSE IF ~chart.exists
        THEN /\ Exit(1, <<"Error: Path not found: " \o ChartPath>>, <<>>)
             /\ UNCHANGED <<parent_values, registry>>
        ELSE IF chart.values.kind = "absent"
        THEN /\ Exit(1, <<"Error: values.yaml not found: " \o ValuesPath>>, <<>>)
             /\ UNCHANGED <<parent_values, registry>>
        ELSE IF reg.t = "raise"
        THEN /\ Crash(warn)
             /\ parent_values' = pv
             /\ UNCHANGED registry
        ELSE /\ Goto("charts", warn)
             /\ parent_values' = pv
             /\ registry' = reg
  /\ UNCHANGED <<script, argc, chart, images, idx, app_images, infra_images>>
  /\ UNCHANGED <<reportVars, fetchVars>>

\* extract_app_images_from_charts, lines 32-40: the charts directory
ExtractCharts ==
  /\ script = "extract" /\ pc = "charts"
  /\ images' = <<>>
  /\ IF ~chart.chartsExists
     THEN /\ Goto("infra", <<"Warning: charts directory not found: " \o ChartsPath>>)
          /\ app_images' = <<>>
          /\ UNCHANGED idx
     ELSE /\ Goto(IF chart.subcharts = {} THEN "sidecars" ELSE "subchart", <<>>)
          /\ idx' = 1
          /\ UNCHANGED app_images
  /\ UNCHANGED <<script, argc, chart, parent_values, registry, infra_images>>
  /\ UNCHANGED <<reportVars, fetchVars>>

\* extract_app_images_from_charts, lines 40-63: one subchart
ExtractSubchart ==
  /\ script = "extract" /\ pc = "subchart"
  /\ LET dirs == SortedDirs(chart.subcharts)
         r == SubchartStep(dirs[idx], parent_values, registry)
     IN IF r.raised
        THEN /\ Crash(r.err)
             /\ UNCHANGED <<images, idx>>
        ELSE /\ Goto(IF idx = Len(dirs) THEN "sidecars" ELSE "subchart", r.err)
             /\ images' = images \o r.images
             /\ idx' = idx + 1
  /\ UNCHANGED <<script, argc, chart, parent_values, registry, app_images, infra_images>>
  /\ UNCHANGED <<reportVars, fetchVars>>

\* extract_app_images_from_charts, lines 65-78, and main, line 145
ExtractSidecars ==
  /\ script = "extract" /\ pc = "sidecars"
  /\ LET r == AppImagesTail(images, parent_values, registry)
     IN IF r.raised
        THEN /\ Crash(<<>>)
             /\ UNCHANGED app_images
        ELSE /\ Goto("infra", <<>>)
             /\ app_images' = r.images
  /\ UNCHANGED <<script, argc, chart, parent_values, registry, images, idx, infra_images>>
  /\ UNCHANGED <<reportVars, fetchVars>>

\* main, line 146
ExtractInfra ==
  /\ script = "extract" /\ pc = "infra"
  /\ LET r == extract_infra_images(parent_values)
     IN IF r.raised
        THEN /\ Crash(<<>>)
             /\ UNCHANGED infra_images
        ELSE /\ Goto("print", <<>>)
             /\ infra_images' = r.images
  /\ UNCHANGED <<script, argc, chart, parent_values, registry, images, idx, app_images>>
  /\ UNCHANGED <<reportVars, fetchVars>>

\* main, lines 148-157
ExtractPrint ==
  /\ script = "extract" /\ pc = "print"
  /\ Exit(0, <<>>,
          <<"# Application Images">> \o app_images
          \o <<"", "# Infrastructure Images">> \o infra_images
          \o <<"", "# Total: " \o ToString(Len(app_images)) \o " app images + "
                   \o ToString(Len(infra_images)) \o " infrastructure images = "
                   \o ToString(Len(app_images) + Len(infra_images)) \o " images">>)
  /\ UNCHANGED <<script, argc, extractVars, reportVars, fetchVars>>

(***************************************************************************)
(* scripts/generate-report.py                                              *)
(***************************************************************************)
\* A scan result file: kind "unreadable" (open raises), "invalid" (json.load
\* raises) or "doc" (json.load returns doc).
UnreadableFile == [kind |-> "unreadable", doc |-> PyNone]
InvalidFile == [kind |-> "invalid", doc |-> PyNone]

ResultsPath == "scan-results"

\* load_scan_result's return value
load_scan_result(file) == IF file.kind = "doc" THEN file.doc ELSE EmptyDict

\* what load_scan_result prints to stderr (the exception's text is left out)
load_scan_warning(name, file) ==
  IF file.kind = "doc" THEN <<>>
  ELSE <<"Warning: Failed to load " \o ResultsPath \o "/" \o name>>

RECURSIVE Replace(_, _, _, _)
\* s.replace(old, new, count); count < 0 replaces every occurrence
Replace(s, old, new, count) ==
  IF count = 0 \/ Len(s) < Len(old) THEN s
  ELSE IF SubSeq(s, 1, Len(old)) = old
       THEN new \o Replace(SubSeq(s, Len(old) + 1, Len(s)), old, new, count - 1)
  ELSE Head(s) \o Replace(Tail(s), old, new, count)

\* extract_image_name
extract_image_name(filename) ==
  LET name == Replace(filename, ".json", "", -1)
  IN Replace(Replace(name, "_", "/", 2), "_", ":", 1)

\* s.endswith(suffix)
EndsWith(s, suffix) ==
  Len(s) >= Len(suffix) /\ SubSeq(s, Len(s) - Len(suffix) + 1, Len(s)) = suffix

\* results_path.glob('*.json')
Glob(entries) == {e \in entries : EndsWith(e.name, ".json")}

RECURSIVE SortedFiles(_)
\* sorted(scan_files): the paths of one directory, by name
SortedFiles(S) ==
  IF S = {} THEN <<>>
  ELSE LET m == CHOOSE x \in S : \A y \in S \ {x} : StrLess(x.name, y.name)
       IN <<m>> \o SortedFiles(S \ {m})

\* 'Results' not in scan_results, for a dict, a list or a str
NotIn(k, v) ==
  CASE v.t = "dict" -> k \notin DOMAIN v.m
    [] v.t = "list" -> \A i \in 1..Len(v.l) : v.l[i] # PyStr(k)
    [] v.t = "str" -> ~Contains(v.s, k)

RECURSIVE KeyItems(_)
\* The keys of a dict as a list of str. Every key is a str, on which the
\* loop body's .get raises, so the order the keys come in shows nowhere
KeyItems(S) ==
  IF S = {} THEN <<>>
  ELSE LET k == CHOOSE k \in S : \A j \in S \ {k} : StrLess(k, j)
       IN <<PyStr(k)>> \o KeyItems(S \ {k})

\* What `for x in v` iterates: the elements of a list, the keys of a dict,
\* the characters of a str; None and an int are not iterable (TypeError)
Iterate(v) ==
  CASE v.t = "list" -> v
    [] v.t = "dict" -> PyList(KeyItems(DOMAIN v.m))
    [] v.t = "str" -> PyList([i \in 1..Len(v.s) |-> PyStr(SubSeq(v.s, i, i))])
    [] OTHER -> Raised

\* vuln_details[severity]: a list or a dict is unhashable (TypeError)
Hashable(v) == v.t \in {"str", "int", "none"}

\* vuln_details[severity] += 1
Increment(details, severity) ==
  IF severity \in DOMAIN details
  THEN [details EXCEPT ![severity] = @ + 1]
  ELSE details @@ (severity :> 1)

\* The tally so far: the three locals of analyze_vulnerabilities, and
\* whether the function raised
Tally(raised, high, critical, details) ==
  [raised |-> raised, high |-> high, critical |-> critical, details |-> details]
RaisedTally == Tally(TRUE, 0, 0, <<>>)

RECURSIVE TallyVulnerabilities(_, _)
\* The inner loop, lines 54-60, over the rest of a result's list
TallyVulnerabilities(vulns, acc) ==
  IF vulns = <<>> THEN acc
  ELSE LET severity == Get(Head(vulns), "Severity", PyStr("UNKNOWN"))
       IN IF severity.t = "raise" \/ ~Hashable(severity) THEN RaisedTally
          ELSE TallyVulnerabilities(
                 Tail(vulns),
                 Tally(FALSE,
                       IF severity = PyStr("HIGH") THEN acc.high + 1 ELSE acc.high,
                       IF severity = PyStr("CRITICAL") THEN acc.critical + 1 ELSE acc.critical,
                       Increment(acc.details, severity)))

RECURSIVE TallyResults(_, _)
\* The outer loop, lines 53-60, over the rest of the results
TallyResults(results, acc) ==
  IF results = <<>> THEN acc
  ELSE LET vulns == Iterate(Get(Head(results), "Vulnerabilities", PyList(<<>>)))
       IN IF vulns.t = "raise" THEN RaisedTally
          ELSE LET inner == TallyVulnerabilities(vulns.l, acc)
               IN IF inner.raised THEN RaisedTally
                  ELSE TallyResults(Tail(results), inner)

\* analyze_vulnerabilities
analyze_vulnerabilities(scan_results) ==
  IF ~Truthy(scan_results) THEN Tally(FALSE, 0, 0, <<>>)
  ELSE IF scan_results.t = "int" THEN RaisedTally
  ELSE IF NotIn("Results", scan_results) THEN Tally(FALSE, 0, 0, <<>>)
  ELSE LET results == Iterate(Get(scan_results, "Results", PyList(<<>>)))
       IN IF results.t = "raise" THEN RaisedTally
          ELSE TallyResults(results.l, Tally(FALSE, 0, 0, <<>>))

\* An element of image_results
ImageResult(image, high, critical, details) ==
  [image |-> image, high |-> high, critical |-> critical, details |-> details]

\* (a.critical, a.high) < (b.critical, b.high)
KeyLess(a, b) ==
  a.critical < b.critical \/ (a.critical = b.critical /\ a.high < b.high)

RECURSIVE InsertByKey(_, _)
\* s, sorted, with x put after every element whose key is not greater
InsertByKey(x, s) ==
  IF s = <<>> THEN <<x>>
  ELSE IF KeyLess(x, Head(s)) THEN <<x>> \o s
  ELSE <<Head(s)>> \o InsertByKey(x, Tail(s))

RECURSIVE StableSortByKey(_)
\* The stable ascending sort of list.sort
StableSortByKey(l) ==
  IF l = <<>> THEN <<>>
  ELSE InsertByKey(l[Len(l)], StableSortByKey(SubSeq(l, 1, Len(l) - 1)))

Reverse(l) == [i \in 1..Len(l) |-> l[Len(l) + 1 - i]]

\* The ascending sort, reversed: ties come out in reversed order
SortedThenReversed(l) == Reverse(StableSortByKey(l))

\* sorted(image_results, key=(critical, high), reverse=True), lines 114-118:
\* list.sort reverses the list, sorts it stably and reverses the result
SortedByKeyReverse(l) == Reverse(StableSortByKey(Reverse(l)))

\* j < k on two keys of vuln_details of one type
ItemLess(j, k) == IF j.t = "str" THEN StrLess(j.s, k.s) ELSE j.n < k.n

\* sorted() can order the keys: two keys are compared with <, which raises
\* TypeError between a str and an int and for None
Comparable(keys) ==
  \/ Cardinality(keys) <= 1
  \/ \A k \in keys : k.t = "str"
  \/ \A k \in keys : k.t = "int"

RECURSIVE SortedItemsReverse(_)
\* sorted(details.items(), reverse=True), line 146: the keys are distinct
SortedItemsReverse(details) ==
  IF DOMAIN details = {} THEN <<>>
  ELSE LET m == CHOOSE k \in DOMAIN details :
                  \A j \in DOMAIN details \ {k} : ItemLess(j, k)
       IN <<[severity |-> m, count |-> details[m]]>>
          \o SortedItemsReverse([k \in DOMAIN details \ {m} |-> details[k]])

\* PASS when critical alone is zero
StatusCriticalOnly(critical, high) == IF critical = 0 THEN "PASS" ELSE "REVIEW"

\* The status of a row, line 121 (the marker's emoji is left out)
Status(critical, high) == IF critical = 0 /\ high = 0 THEN "PASS" ELSE "REVIEW"

\* The lines of the report, each kept as its fields
TextLine(s) == [kind |-> "text", text |-> s]
RowLine(r) ==
  [kind |-> "row", image |-> r.image, critical |-> r.critical, high |-> r.high,
   status |-> Status(r.critical, r.high)]
ImageHeading(r) == [kind |-> "image", image |-> r.image]
BreakdownLine(item) ==
  [kind |-> "breakdown", severity |-> Format(item.severity), count |-> item.count]

\* lines 99-111
HeaderLines(n, critical, high) ==
  << TextLine("# Semaphore Security Scan Report"),
     TextLine(""),
     TextLine("**Generated:** <utcnow> UTC"),
     TextLine("**Total Images Scanned:** " \o ToString(n)),
     TextLine("**Total Critical Vulnerabilities:** " \o ToString(critical)),
     TextLine("**Total High Vulnerabilities:** " \o ToString(high)),
     TextLine(""),
     TextLine("## Summary"),
     TextLine(""),
     TextLine("| Image | Critical | High | Status |"),
     TextLine("|-------|----------|------|--------|") >>

\* lines 120-124
RowLines(sorted_results) == [i \in 1..Len(sorted_results) |-> RowLine(sorted_results[i])]

\* line 127
ImagesWithVulns(sorted_results) ==
  SelectSeq(sorted_results, LAMBDA r : r.critical > 0 \/ r.high > 0)

RECURSIVE DetailLines(_)
\* lines 138-149
DetailLines(rs) ==
  IF rs = <<>> THEN <<>>
  ELSE LET items == SortedItemsReverse(Head(rs).details)
       IN << ImageHeading(Head(rs)), TextLine(""),
             TextLine("**Vulnerability Breakdown:**"), TextLine("") >>
          \o [i \in 1..Len(items) |-> BreakdownLine(items[i])]
          \o <<TextLine("")>>
          \o DetailLines(Tail(rs))

\* lines 129-149
DetailSection(sorted_results) ==
  IF ImagesWithVulns(sorted_results) = <<>> THEN <<>>
  ELSE << TextLine(""), TextLine("## Detailed Findings"), TextLine(""),
          TextLine("### Images Requiring Attention"), TextLine("") >>
       \o DetailLines(ImagesWithVulns(sorted_results))

\* lines 152-168
RecommendationLines ==
  << TextLine("## Recommendations"),
     TextLine(""),
     TextLine("1. **Critical Vulnerabilities**: Prioritize images with CRITICAL vulnerabilities for immediate remediation"),
     TextLine("2. **High Vulnerabilities**: Schedule updates for images with HIGH vulnerabilities"),
     TextLine("3. **Regular Scans**: Run this pipeline regularly (e.g., weekly) to catch new vulnerabilities"),
     TextLine("4. **Image Updates**: Consider updating base images and dependencies"),
     TextLine("5. **Vulnerability Database**: Ensure Trivy vulnerability database is up to date"),
     TextLine(""),
     TextLine("## Next Steps"),
     TextLine(""),
     TextLine("- Review individual scan result files for detailed vulnerability information"),
     TextLine("- Create tickets for images requiring updates"),
     TextLine("- Monitor CVE feeds for newly disclosed vulnerabilities"),
     TextLine("- Consider implementing automated image rebuilds when vulnerabilities are patched"),
     TextLine("") >>

\* line 146 raises for one of the images with findings
RenderRaises(results) ==
  \E i \in 1..Len(results) :
    /\ results[i].critical > 0 \/ results[i].high > 0
    /\ ~Comparable(DOMAIN results[i].details)

\* generate_report, lines 98-170: the report of the tallied results
RenderReport(results, critical, high) ==
  LET sorted_results == SortedByKeyReverse(results)
  IN HeaderLines(Len(results), critical, high)
     \o RowLines(sorted_results)
     \o DetailSection(sorted_results)
     \o RecommendationLines

(***************************************************************************)
(* generate-report: the inputs of a run.                                   *)
(***************************************************************************)
Finding(severity) == PyDict("VulnerabilityID" :> PyStr("CVE-1") @@ "Severity" :> PyStr(severity))
UnratedFinding == PyDict("VulnerabilityID" :> PyStr("CVE-2"))
NullFinding == PyDict("VulnerabilityID" :> PyStr("CVE-3") @@ "Severity" :> PyNone)
TargetResult(vulns) == PyDict("Target" :> PyStr("os") @@ "Vulnerabilities" :> PyList(vulns))
ScanDoc(results) == PyDict("SchemaVersion" :> PyInt(2) @@ "Results" :> PyList(results))

\* What the scan result files hold
ScanFiles ==
  { DocFile(ScanDoc(<<>>)),
    DocFile(ScanDoc(<<TargetResult(<<Finding("CRITICAL")>>)>>)),
    DocFile(ScanDoc(<<TargetResult(<<Finding("HIGH"), Finding("HIGH")>>),
                      TargetResult(<<Finding("HIGH"), Finding("LOW")>>)>>)),
    DocFile(ScanDoc(<<TargetResult(<<Finding("CRITICAL"), Finding("HIGH")>>),
                      TargetResult(<<Finding("CRITICAL"), UnratedFinding>>)>>)),
    DocFile(ScanDoc(<<TargetResult(<<Finding("LOW"), Finding("MEDIUM")>>),
                      PyDict("Target" :> PyStr("lang"))>>)),
    DocFile(PyDict("SchemaVersion" :> PyInt(2))),
    DocFile(PyDict("Results" :> PyNone)),
    DocFile(PyDict("Results" :> EmptyDict)),
    DocFile(ScanDoc(<<PyDict("Target" :> PyStr("os") @@ "Vulnerabilities" :> PyStr("")),
                      TargetResult(<<Finding("HIGH")>>)>>)),
    DocFile(ScanDoc(<<TargetResult(<<Finding("HIGH"), NullFinding>>)>>)),
    DocFile(ScanDoc(<<PyDict("Target" :> PyStr("os") @@ "Vulnerabilities" :> PyNone)>>)),
    DocFile(PyNone),
    UnreadableFile,
    InvalidFile }

\* The names of the scan result files, in the order the directory lists them
FileNames ==
  << "ghcr.io_semaphoreio_front_v1.json", "postgres_13.json",
     "curlimages_curl_latest.json", "docker.io_erlang_26.json", "redis_7.json" >>

DirEntry(name, file) == [name |-> name, file |-> file]
\* An entry of the directory that is no scan result
OtherEntry == DirEntry("README.md", InvalidFile)

ResultsDir(exists, entries) == [exists |-> exists, entries |-> entries]
NoResultsDir == ResultsDir(FALSE, {})

\* The directory with n scan result files, the i-th holding c[i]
ResultsDirOf(c, n) ==
  ResultsDir(TRUE, {DirEntry(FileNames[i], c[i]) : i \in 1..n} \cup {OtherEntry})

(***************************************************************************)
(* generate-report: the run.                                               *)
(***************************************************************************)
\* main, lines 173-180
ReportMain ==
  /\ script = "report" /\ pc = "main"
  /\ IF argc # 2
     THEN Exit(1, <<"Usage: generate-report.py <scan-results-directory>">>, <<>>)
     ELSE Goto("generate", <<>>)
  /\ UNCHANGED <<script, argc, extractVars, reportVars, fetchVars>>

\* generate_report, lines 65-81
ReportGenerate ==
  /\ script = "report" /\ pc = "generate"
  /\ IF ~results_dir.exists
     THEN /\ report' = <<TextLine("Error: Directory " \o ResultsPath \o " does not exist")>>
          /\ Goto("print", <<>>)
          /\ UNCHANGED <<scan_files, idx>>
     ELSE IF Glob(results_dir.entries) = {}
     THEN /\ report' = <<TextLine("No scan results found")>>
          /\ Goto("print", <<>>)
          /\ UNCHANGED <<scan_files, idx>>
     ELSE /\ scan_files' = SortedFiles(Glob(results_dir.entries))
          /\ idx' = 1
          /\ Goto("tally", <<>>)
          /\ UNCHANGED report
  /\ image_results' = <<>>
  /\ total_high' = 0
  /\ total_critical' = 0
  /\ UNCHANGED <<script, argc, results_dir>>
  /\ UNCHANGED <<chart, parent_values, registry, images, app_images, infra_images>>
  /\ UNCHANGED fetchVars

\* generate_report, lines 83-96: one scan file
ReportTally ==
  /\ script = "report" /\ pc = "tally"
  /\ LET scan_file == scan_files[idx]
         scan_data == load_scan_result(scan_file.file)
         warn == load_scan_warning(scan_file.name, scan_file.file)
         image_name == extract_image_name(scan_file.name)
         r == analyze_vulnerabilities(scan_data)
     IN IF r.raised
        THEN /\ Crash(warn)
             /\ UNCHANGED <<image_results, total_high, total_critical, idx>>
        ELSE /\ Goto(IF idx = Len(scan_files) THEN "render" ELSE "tally", warn)
             /\ total_high' = total_high + r.high
             /\ total_critical' = total_critical + r.critical
             /\ image_results' =
                  Append(image_results, ImageResult(image_name, r.high, r.critical, r.details))
             /\ idx' = idx + 1
  /\ UNCHANGED <<script, argc, results_dir, scan_files, report>>
  /\ UNCHANGED <<chart, parent_values, registry, images, app_images, infra_images>>
  /\ UNCHANGED fetchVars

\* generate_report, lines 98-170
ReportRender ==
  /\ script = "report" /\ pc = "render"
  /\ IF RenderRaises(image_results)
     THEN /\ Crash(<<>>)
          /\ UNCHANGED report
     ELSE /\ report' = RenderReport(image_results, total_critical, total_high)
          /\ Goto("print", <<>>)
  /\ UNCHANGED <<script, argc, results_dir, scan_files, image_results,
                 total_high, total_critical>>
  /\ UNCHANGED <<extractVars, fetchVars>>

\* main, line 181
ReportPrint ==
  /\ script = "report" /\ pc = "print"
  /\ Exit(0, <<>>, report)
  /\ UNCHANGED <<script, argc, extractVars, reportVars, fetchVars>>

(***************************************************************************)
(* scripts/download-report-api.py                                          *)
(***************************************************************************)
\* seconds requests.get waits for the server, line 43
RequestTimeout == 30
\* lines of the saved file that the preview shows, line 61
PreviewLimit == 50

\* The environment of a run: SEMAPHORE_API_TOKEN, the artifact store's
\* answer (seconds to answer, whether it can be reached, status, lines of
\* the body) and whether the output file can be written
Environment(token, reachable, latency, status, lines, writable) ==
  [token |-> token, reachable |-> reachable, latency |-> latency, status |-> status,
   lines |-> lines, writable |-> writable]
NoEnvironment == Environment(NoKey, FALSE, 0, 0, 0, FALSE)

Answers ==
  { [reachable |-> TRUE, latency |-> 1, status |-> 200, lines |-> n] : n \in {0, 1, 50, 51} }
  \cup { [reachable |-> TRUE, latency |-> 1, status |-> s, lines |-> 1] : s \in {404, 500} }
  \cup { [reachable |-> TRUE, latency |-> 31, status |-> 200, lines |-> 1],
         [reachable |-> FALSE, latency |-> 1, status |-> 200, lines |-> 1] }

Environments ==
  { Environment(tok, a.reachable, a.latency, a.status, a.lines, w) :
      tok \in {NoKey, Key(PyStr("")), Key(PyStr("s3cr3t"))},
      a \in Answers, w \in BOOLEAN }

\* os.environ.get("SEMAPHORE_API_TOKEN")
ApiToken(e) == IF e.token.has THEN e.token.v ELSE PyNone

\* The check is left out
TokenNeverMissing(api_token) == FALSE

\* not api_token, line 19
TokenMissing(api_token) == ~Truthy(api_token)

\* response.raise_for_status(), line 44
IsHttpError(status) == status >= 400 /\ status < 600

OutputFile(written, lines) == [written |-> written, lines |-> lines]
NoOutputFile == OutputFile(FALSE, 0)

\* sys.argv[1] and the output file: sys.argv[2], or REPORT.md, line 85
WorkflowId == "d41afe3f"
OutputPath(n) == IF n > 2 THEN "out.md" ELSE "REPORT.md"
\* lines 24-28
ArtifactUrl(workflow_id) ==
  "https://semaphore.hamir.online/artifacts/workflows/" \o workflow_id
  \o "/.semaphore/REPORT.md"

\* The body of the answer, line by line (each ends with a newline)
BodyLine(i) == "line " \o ToString(i)
RECURSIVE BodySize(_)
\* len(response.content)
BodySize(lines) == IF lines = 0 THEN 0 ELSE Len(BodyLine(lines)) + 1 + BodySize(lines - 1)

\* The first PreviewLimit lines of the saved file, lines 59-63
Preview(lines) ==
  [i \in 1..(IF lines < PreviewLimit THEN lines ELSE PreviewLimit) |-> BodyLine(i)]

Dashes == "--------------------------------------------------------------------------------"

\* the script's entry, lines 75-87
FetchMain ==
  /\ script = "fetch" /\ pc = "main"
  /\ IF argc < 2
     THEN Exit(1, <<>>,
               << "Usage: download-report-api.py <workflow-id> [output-file]",
                  "",
                  "Example:",
                  "  export SEMAPHORE_API_TOKEN='your-token'",
                  "  download-report-api.py d41afe3f-9489-43c8-aaec-0d54c939d6b4" >>)
     ELSE Goto("token", <<>>)
  /\ UNCHANGED <<script, argc, extractVars, reportVars, fetchVars>>

\* download_report, lines 17-40
FetchToken ==
  /\ script = "fetch" /\ pc = "token"
  /\ IF TokenMissing(ApiToken(env))
     THEN Exit(1, <<>>, <<"Error: SEMAPHORE_API_TOKEN environment variable not set">>)
     ELSE /\ pc' = "request"
          /\ stdout' = stdout \o
               << "=== Semaphore Report Downloader ===",
                  "Workflow ID: " \o WorkflowId,
                  "Artifact URL: " \o ArtifactUrl(WorkflowId),
                  "Output file: " \o OutputPath(argc),
                  "",
                  "Downloading report..." >>
          /\ UNCHANGED <<exitCode, crashAt, stderr>>
  /\ UNCHANGED <<script, argc, extractVars, reportVars, fetchVars>>

\* download_report, lines 42-44 and 66-72 (the exceptions' texts are left out)
FetchRequest ==
  /\ script = "fetch" /\ pc = "request"
  /\ requestCount' = requestCount + 1
  /\ IF ~env.reachable \/ env.latency > RequestTimeout
     THEN Exit(1, <<>>, <<"Error: <exception>">>)
     ELSE IF IsHttpError(env.status)
     THEN Exit(1, <<>>, <<"HTTP Error: <exception>", "Response: <text>">>)
     ELSE Goto("save", <<>>)
  /\ UNCHANGED <<script, argc, extractVars, reportVars, env, outFile>>

\* download_report, lines 46-54 and 70-72 (the check mark is left out)
FetchSave ==
  /\ script = "fetch" /\ pc = "save"
  /\ IF ~env.writable
     THEN /\ Exit(1, <<>>, <<"Error: <exception>">>)
          /\ UNCHANGED outFile
     ELSE /\ outFile' = OutputFile(TRUE, env.lines)
          /\ pc' = "preview"
          /\ stdout' = stdout \o
               << "Report downloaded successfully!",
                  "  Size: " \o ToString(BodySize(env.lines)) \o " bytes",
                  "  Saved to: " \o OutputPath(argc),
                  "" >>
          /\ UNCHANGED <<exitCode, crashAt, stderr>>
  /\ UNCHANGED <<script, argc, extractVars, reportVars, env, requestCount>>

\* download_report, lines 56-64
FetchPreview ==
  /\ script = "fetch" /\ pc = "preview"
  /\ Exit(0, <<>>,
          <<"Preview (first 50 lines):", Dashes>> \o Preview(outFile.lines) \o <<Dashes>>)
  /\ UNCHANGED <<script, argc, extractVars, reportVars, fetchVars>>

(***************************************************************************)
(* The start of a process and the three specifications.                    *)
(***************************************************************************)
ProcessStart ==
  /\ pc = "main"
  /\ exitCode = -1
  /\ crashAt = ""
  /\ stdout = <<>>
  /\ stderr = <<>>
  /\ idx = 0
  /\ parent_values = PyNone
  /\ registry = PyNone
  /\ images = <<>>
  /\ app_images = <<>>
  /\ infra_images = <<>>
  /\ scan_files = <<>>
  /\ image_results = <<>>
  /\ total_high = 0
  /\ total_critical = 0
  /\ report = <<>>
  /\ requestCount = 0
  /\ outFile = NoOutputFile

NoChartDir == ChartDir(FALSE, AbsentFile, FALSE, {})

InitExtract ==
  /\ script = "extract"
  /\ \/ /\ argc = 2
        /\ \E n \in 0..MaxCharts : \E g \in GlobalChoices : \E c \in CaseChoices(n) :
             chart = ChartDirOf(g, c, n)
     \/ argc = 2 /\ chart \in OddChartDirs
     \/ argc \in {1, 3} /\ chart = WellFormedChart
  /\ results_dir = NoResultsDir
  /\ env = NoEnvironment
  /\ ProcessStart

InitReport ==
  /\ script = "report"
  /\ \/ /\ argc = 2
        /\ \E n \in 0..MaxFiles : \E c \in [1..n -> ScanFiles] :
             results_dir = ResultsDirOf(c, n)
     \/ argc = 2 /\ results_dir = NoResultsDir
     \/ argc \in {1, 3} /\ results_dir \in {NoResultsDir, ResultsDir(TRUE, {OtherEntry})}
  /\ chart = NoChartDir
  /\ env = NoEnvironment
  /\ ProcessStart

InitFetch ==
  /\ script = "fetch"
  /\ argc \in {1, 2, 3}
  /\ env \in Environments
  /\ chart = NoChartDir
  /\ results_dir = NoResultsDir
  /\ ProcessStart

NextExtract ==
  \/ ExtractMain
  \/ ExtractCharts
  \/ ExtractSubchart
  \/ ExtractSidecars
  \/ ExtractInfra
  \/ ExtractPrint

NextReport ==
  \/ ReportMain
  \/ ReportGenerate
  \/ ReportTally
  \/ ReportRender
  \/ ReportPrint

NextFetch ==
  \/ FetchMain
  \/ FetchToken
  \/ FetchRequest
  \/ FetchSave
  \/ FetchPreview

SpecExtract == InitExtract /\ [][NextExtract]_vars
SpecReport == InitReport /\ [][NextReport]_vars
SpecFetch == InitFetch /\ [][NextFetch]_vars

Init == InitExtract \/ InitReport \/ InitFetch
Next == NextExtract \/ NextReport \/ NextFetch
Spec == Init /\ [][Next]_vars

(***************************************************************************)
(* extract-images: the claims.                                             *)
(***************************************************************************)
ExtractDone == script = "extract" /\ pc = "done"
ExtractPrinted == ExtractDone /\ exitCode = 0

\* The two lists as main printed them
InfraHeaderPos == CHOOSE i \in 1..Len(stdout) : stdout[i] = "# Infrastructure Images"
PrintedApp == SubSeq(stdout, 2, InfraHeaderPos - 2)
PrintedInfra == SubSeq(stdout, InfraHeaderPos + 1, Len(stdout) - 2)

IsSortedStrs(l) == \A i \in 1..(Len(l) - 1) : ~StrLess(l[i + 1], l[i])
NoDuplicates(l) == \A i, j \in 1..Len(l) : i # j => l[i] # l[j]
Occurs(x, l) == \E i \in 1..Len(l) : l[i] = x

\* C2: both lists printed by main, the application images and the
\* infrastructure images, are in lexicographically ascending order.
C2_BothListsSorted ==
  ExtractPrinted => IsSortedStrs(PrintedApp) /\ IsSortedStrs(PrintedInfra)

\* C3: neither printed list holds the same image reference twice.
C3_NoDuplicateReference ==
  ExtractPrinted => NoDuplicates(PrintedApp) /\ NoDuplicates(PrintedInfra)

\* The run got as far as the loop over the subcharts
ReachedSubcharts ==
  /\ ExtractDone
  /\ argc = 2 /\ chart.exists /\ chart.values.kind # "absent" /\ chart.chartsExists
  /\ crashAt # "main"

ParentEntry(name) == Get(parent_values, name, PyNone)
\* The subchart declares an image name and the parent gives it an imageTag
WellFormedSubchart(sc) ==
  /\ sc.is_dir
  /\ sc.values.kind = "doc"
  /\ sc.values.doc.t = "dict"
  /\ Truthy(Get(sc.values.doc, "image", PyNone))
  /\ ParentEntry(sc.name).t = "dict"
  /\ Truthy(Get(ParentEntry(sc.name), "imageTag", PyNone))
\* The subchart's configuration is missing or malformed
MalformedSubchart(sc) == sc.is_dir /\ ~WellFormedSubchart(sc)

SubchartReference(sc) ==
  FullImage(registry, Get(sc.values.doc, "image", PyNone),
            Get(ParentEntry(sc.name), "imageTag", PyNone))
WarnedAbout(sc) ==
  \E i \in 1..Len(stderr) :
    /\ Contains(stderr[i], "Warning")
    /\ Contains(stderr[i], ChartsPath \o "/" \o sc.name)

RECURSIVE ExpectedChartImages(_)
ExpectedChartImages(dirs) ==
  IF dirs = <<>> THEN <<>>
  ELSE (IF WellFormedSubchart(Head(dirs)) THEN <<SubchartReference(Head(dirs))>> ELSE <<>>)
       \o ExpectedChartImages(Tail(dirs))

\* C5: a subchart whose configuration is missing or malformed contributes no
\* image, is warned about, and does not abort the run: the loop ends with
\* exactly the references of the well-formed subcharts.
C5_SubchartErrorPolicy ==
  ReachedSubcharts =>
    /\ crashAt # "subchart"
    /\ images = ExpectedChartImages(SortedDirs(chart.subcharts))
    /\ \A sc \in chart.subcharts : MalformedSubchart(sc) => WarnedAbout(sc)

\* C6: whatever the parent values.yaml holds, the infrastructure list that
\* is printed has postgres:13 and curlimages/curl:latest (runs that a
\* subchart aborted are left out).
C6_FixedAuxiliaryImages ==
  (/\ ExtractDone
   /\ argc = 2 /\ chart.exists /\ chart.values.kind # "absent"
   /\ crashAt # "subchart") =>
    /\ exitCode = 0
    /\ Occurs("postgres:13", PrintedInfra)
    /\ Occurs("curlimages/curl:latest", PrintedInfra)

AgentSection == Get(Get(parent_values, "global", EmptyDict), "agent", EmptyDict)
DeclaresDefaultImage == AgentSection.t = "dict" /\ "defaultImage" \in DOMAIN AgentSection.m
ExpectedAgentImage ==
  IF DeclaresDefaultImage THEN Format(AgentSection.m["defaultImage"]) ELSE FallbackAgentImage
\* What extract_infra_images appended after the init-container images
AppendedAgentImages ==
  LET p == CHOOSE i \in 1..Len(PrintedInfra) :
             /\ PrintedInfra[i] = "curlimages/curl:latest"
             /\ i > 1 /\ PrintedInfra[i - 1] = "postgres:13"
  IN SubSeq(PrintedInfra, p + 1, Len(PrintedInfra))

\* C7: exactly one agent image is appended: global.agent.defaultImage when
\* it is declared, docker.io/erlang:26 otherwise.
C7_OneAgentImage ==
  ExtractPrinted => AppendedAgentImages = <<ExpectedAgentImage>>

(***************************************************************************)
(* generate-report: the claims.                                            *)
(***************************************************************************)
ReportDone == script = "report" /\ pc = "done"
\* generate_report returned the Markdown report
Rendered == script = "report" /\ pc \in {"print", "done"} /\ Len(report) > 1

IsRow(line) == line.kind = "row"
TableRows(lines) == SelectSeq(lines, IsRow)
IsImageHeading(line) == line.kind = "image"
DetailedImages(lines) ==
  LET hs == SelectSeq(lines, IsImageHeading) IN [i \in 1..Len(hs) |-> hs[i].image]
HasDetailedFindings(lines) ==
  \E i \in 1..Len(lines) : lines[i] = [kind |-> "text", text |-> "## Detailed Findings"]
IsReviewRow(line) == line.kind = "row" /\ line.status = "REVIEW"
ReviewImages(lines) ==
  LET rs == SelectSeq(lines, IsReviewRow) IN [i \in 1..Len(rs) |-> rs[i].image]

\* C1: the report generator exits with 1 when the argument count is wrong or
\* the directory does not exist, and prints a plain message and exits with 0
\* when the directory holds no *.json file.
C1_ExitStatus ==
  ReportDone =>
    /\ (argc # 2 \/ ~results_dir.exists) => exitCode = 1
    /\ (argc = 2 /\ results_dir.exists /\ Glob(results_dir.entries) = {}) =>
         (exitCode = 0 /\ stdout = <<[kind |-> "text", text |-> "No scan results found"]>>)

\* The place of an image's file among the sorted scan files
CollectionIndex(image) ==
  CHOOSE k \in 1..Len(scan_files) : extract_image_name(scan_files[k].name) = image

\* C4: the rows of the summary table are ordered by (critical, high)
\* descending, and rows with equal pairs keep the order in which their files,
\* sorted by path, were tallied.
C4_RowOrder ==
  Rendered =>
    LET rows == TableRows(report)
    IN /\ Len(rows) = Len(scan_files)
       /\ \A k \in 1..(Len(scan_files) - 1) : StrLess(scan_files[k].name, scan_files[k + 1].name)
       /\ \A i \in 1..Len(rows) :
            \E k \in 1..Len(scan_files) : extract_image_name(scan_files[k].name) = rows[i].image
       /\ \A i, j \in 1..Len(rows) :
            i < j =>
              \/ rows[i].critical > rows[j].critical
              \/ rows[i].critical = rows[j].critical /\ rows[i].high > rows[j].high
              \/ /\ rows[i].critical = rows[j].critical
                 /\ rows[i].high = rows[j].high
                 /\ CollectionIndex(rows[i].image) < CollectionIndex(rows[j].image)

\* A report of three rows or more, two of them with equal pairs and one with
\* another pair
C4_Witness ==
  /\ Rendered
  /\ LET rows == TableRows(report)
     IN /\ Len(rows) >= 3
        /\ \E i, j \in 1..Len(rows) :
             /\ i < j
             /\ rows[i].critical = rows[j].critical
             /\ rows[i].high = rows[j].high
             /\ rows[i].critical + rows[i].high > 0
        /\ \E i, j \in 1..Len(rows) : rows[i].critical # rows[j].critical

\* C9: a row is marked PASS exactly when its critical and high counts are
\* both zero and REVIEW otherwise; the images under "Detailed Findings" are
\* the REVIEW rows in table order, and the section is absent when there is
\* none.
C9_StatusAndDetails ==
  Rendered =>
    LET rows == TableRows(report)
    IN /\ \A i \in 1..Len(rows) :
            /\ rows[i].status \in {"PASS", "REVIEW"}
            /\ rows[i].status = "PASS" <=> (rows[i].critical = 0 /\ rows[i].high = 0)
       /\ DetailedImages(report) = ReviewImages(report)
       /\ HasDetailedFindings(report) <=> ReviewImages(report) # <<>>

\* A report with a PASS row and a REVIEW row that has no critical finding
C9_Witness ==
  /\ Rendered
  /\ LET rows == TableRows(report)
     IN /\ \E i \in 1..Len(rows) : rows[i].status = "PASS"
        /\ \E i \in 1..Len(rows) :
             rows[i].status = "REVIEW" /\ rows[i].critical = 0 /\ rows[i].high > 0
        /\ HasDetailedFindings(report)

\* The file cannot be processed as a scan result document
Unprocessable(file) ==
  \/ file.kind # "doc"
  \/ file.doc.t # "dict"
  \/ /\ "Results" \in DOMAIN file.doc.m
     /\ \/ file.doc.m["Results"].t # "list"
        \/ \E i \in 1..Len(file.doc.m["Results"].l) :
             LET result == file.doc.m["Results"].l[i]
             IN \/ result.t # "dict"
                \/ /\ "Vulnerabilities" \in DOMAIN result.m
                   /\ result.m["Vulnerabilities"].t # "list"

WarnedAboutFile(name) ==
  \E i \in 1..Len(stderr) : Contains(stderr[i], "Warning") /\ Contains(stderr[i], name)

RECURSIVE SumCritical(_)
SumCritical(rows) == IF rows = <<>> THEN 0 ELSE Head(rows).critical + SumCritical(Tail(rows))
RECURSIVE SumHigh(_)
SumHigh(rows) == IF rows = <<>> THEN 0 ELSE Head(rows).high + SumHigh(Tail(rows))

\* C10: a scan file that cannot be processed is warned about and counted as
\* zero findings, every file gets its row, the totals are the sums of the
\* rows and the report is printed.
C10_PerFileFailure ==
  (/\ ReportDone
   /\ argc = 2 /\ results_dir.exists /\ Glob(results_dir.entries) # {}) =>
    /\ exitCode = 0
    /\ LET rows == TableRows(stdout)
       IN /\ Len(rows) = Cardinality(Glob(results_dir.entries))
          /\ total_critical = SumCritical(rows)
          /\ total_high = SumHigh(rows)
          /\ \A e \in Glob(results_dir.entries) :
               Unprocessable(e.file) =>
                 /\ WarnedAboutFile(e.name)
                 /\ \E i \in 1..Len(rows) :
                      /\ rows[i].image = extract_image_name(e.name)
                      /\ rows[i].critical = 0
                      /\ rows[i].high = 0

(***************************************************************************)
(* download-report-api: the claims.                                        *)
(***************************************************************************)
\* C8: when SEMAPHORE_API_TOKEN is absent the run issues no HTTP request,
\* writes no file and ends with exit status 1; a request is only ever issued
\* with a token in hand.
C8_NoRequestWithoutToken ==
  /\ (script = "fetch" /\ ~env.token.has) =>
       /\ requestCount = 0
       /\ ~outFile.written
       /\ pc \in {"main", "token", "done"}
       /\ pc = "done" => exitCode = 1
  /\ (script = "fetch" /\ requestCount > 0) => (env.token.has /\ Truthy(env.token.v))

\* A run that the absent token ended, against a store that would have served
\* the report
C8_Witness ==
  /\ script = "fetch" /\ pc = "done" /\ exitCode = 1
  /\ argc >= 2
  /\ ~env.token.has
  /\ env.reachable /\ env.latency <= RequestTimeout /\ env.status = 200 /\ env.writable
  /\ requestCount = 0
  /\ stdout = <<"Error: SEMAPHORE_API_TOKEN environment variable not set">>

====
